---- MODULE Spec2Model ----
(***************************************************************************)
(* Family-tree core of ketafoto/gedcom: the client-side layout engine      *)
(* computeTreeLayout (frontend/src/utils/treeLayout.ts) and the bounded    *)
(* traversal / depth prober that feed it.                                  *)
(*                                                                         *)
(* Horizontal and vertical coordinates are kept in fixed point: one pixel  *)
(* is Unit model units, so that every halving the code performs on its     *)
(* floating-point coordinates is exact here (the variable exact records    *)
(* that no halving was ever applied to an odd number).                     *)
(***************************************************************************)
EXTENDS Integers, Sequences, FiniteSets, TLC

\* ---- program constants (treeLayout.ts) ----
NODE_WIDTH == 150
NODE_HEIGHT == 190
H_GAP == 40
V_GAP == 100
COUPLE_GAP == 20
JUNCTION_SIZE == 1
JUNCTION_DROP == 40
MARGIN == 40
CENTER_PASSES == 3

\* one pixel, in model units
Unit == 2^16
Px(n) == n * Unit

\* ---- generic helpers ----
Range(s) == {s[i] : i \in 1..Len(s)}

MinOf(S) == CHOOSE m \in S : \A v \in S : m <= v
MaxOf(S) == CHOOSE m \in S : \A v \in S : m >= v

Includes(s, v) == \E i \in 1..Len(s) : s[i] = v

RECURSIVE InsertSorted(_, _)
InsertSorted(s, v) ==
  IF s = <<>> THEN <<v>>
  ELSE IF v < Head(s) THEN <<v>> \o s
  ELSE <<Head(s)>> \o InsertSorted(Tail(s), v)

RECURSIVE SortAsc(_)
SortAsc(s) == IF s = <<>> THEN <<>> ELSE InsertSorted(SortAsc(Tail(s)), Head(s))

\* ---- lookups built at the start of computeTreeLayout ----

\* nodeMap.has(id)
NodeMapHas(d, id) == \E i \in 1..Len(d.nodes) : d.nodes[i].id = id

\* nodeMap.get(id).generation: a later node with the same id overwrites
NodeMapGen(d, id) ==
  LET last == MaxOf({i \in 1..Len(d.nodes) : d.nodes[i].id = id})
  IN d.nodes[last].generation

\* genGroups.get(gen): ids of that generation in node-list order
RECURSIVE GenGroup(_, _)
GenGroup(nodes, gen) ==
  IF nodes = <<>> THEN <<>>
  ELSE IF Head(nodes).generation = gen
       THEN <<Head(nodes).id>> \o GenGroup(Tail(nodes), gen)
       ELSE GenGroup(Tail(nodes), gen)

\* generations = sorted keys of genGroups
Generations(d) == {d.nodes[i].generation : i \in 1..Len(d.nodes)}

\* childrenByFamily.get(family_id) || {}
childrenByFamily(d, fid) ==
  {d.edges[i].child_id : i \in {j \in 1..Len(d.edges) : d.edges[j].family_id = fid}}

\* coupleKey: partner ids sorted ascending (the joined string, as a sequence)
coupleKey(partnerIds) == SortAsc(partnerIds)

\* faulty variant: the second loop is missing: no children of subset families are merged in
mergedChildrenByCoupleKey_OwnOnly(d, key) ==
  UNION {childrenByFamily(d, c.family_id) :
           c \in {c1 \in Range(d.couples) : coupleKey(c1.partner_ids) = key}}

\* mergedChildrenByCoupleKey.get(key) || {}: the couple's own children, the
\* children of every record with the same key, and, for a 2-partner couple,
\* the children of every other record whose partners are a non-empty subset
mergedChildrenByCoupleKey(d, key) ==
  LET C == Range(d.couples)
      own == UNION {childrenByFamily(d, c.family_id) :
                      c \in {c1 \in C : coupleKey(c1.partner_ids) = key}}
      sub == UNION {childrenByFamily(d, c2.family_id) :
                      c2 \in {c3 \in C :
                         /\ Len(c3.partner_ids) # 0
                         /\ \E c \in C :
                              /\ Len(c.partner_ids) = 2
                              /\ coupleKey(c.partner_ids) = key
                              /\ c3.family_id # c.family_id
                              /\ Range(c3.partner_ids) \subseteq Range(c.partner_ids)}}
  IN own \cup sub

\* getMergedChildren(couple)
getMergedChildren(d, couple) ==
  LET merged == mergedChildrenByCoupleKey(d, coupleKey(couple.partner_ids))
  IN IF Len(couple.partner_ids) = 2 /\ merged # {}
     THEN merged
     ELSE childrenByFamily(d, couple.family_id)

\* ---- first pass: order of the nodes within one generation ----

\* couple.partner_ids.filter(id => nodeMap.has(id) && generation === gen)
GenPartners(d, couple, gen) ==
  SelectSeq(couple.partner_ids,
            LAMBDA id : NodeMapHas(d, id) /\ NodeMapGen(d, id) = gen)

RECURSIVE PlaceCouples(_, _, _, _)
PlaceCouples(d, gen, i, ordered) ==
  IF i > Len(d.couples) THEN ordered
  ELSE LET vp == GenPartners(d, d.couples[i], gen)
       IN IF /\ Len(vp) = 2
             /\ vp[1] \notin Range(ordered)
             /\ vp[2] \notin Range(ordered)
          THEN PlaceCouples(d, gen, i + 1, ordered \o <<vp[1], vp[2]>>)
          ELSE PlaceCouples(d, gen, i + 1, ordered)

RECURSIVE PlaceSingles(_, _)
PlaceSingles(ids, ordered) ==
  IF ids = <<>> THEN ordered
  ELSE IF Head(ids) \notin Range(ordered)
       THEN PlaceSingles(Tail(ids), Append(ordered, Head(ids)))
       ELSE PlaceSingles(Tail(ids), ordered)

OrderGeneration(d, gen) ==
  PlaceSingles(GenGroup(d.nodes, gen), PlaceCouples(d, gen, 1, <<>>))

\* ---- second pass: provisional x, left to right ----

isCouplePair(d, id, nextId) ==
  \E i \in 1..Len(d.couples) :
     Includes(d.couples[i].partner_ids, id) /\ Includes(d.couples[i].partner_ids, nextId)

\* x given to ordered[i]
RECURSIVE InitialX(_, _, _)
InitialX(d, ordered, i) ==
  IF i = 1 THEN 0
  ELSE InitialX(d, ordered, i - 1)
       + (IF isCouplePair(d, ordered[i - 1], ordered[i])
          THEN Px(NODE_WIDTH + COUPLE_GAP)
          ELSE Px(NODE_WIDTH + H_GAP))

\* faulty variant: the bands are NODE_HEIGHT apart, the generation gap is left out
InitialPositions_NoGap(d, order) ==
  LET ids == UNION {Range(order[g]) : g \in DOMAIN order}
      genOf(id) == MaxOf({g \in DOMAIN order : id \in Range(order[g])})
      lastIdx(id, g) == MaxOf({i \in 1..Len(order[g]) : order[g][i] = id})
  IN [id \in ids |->
        [x |-> InitialX(d, order[genOf(id)], lastIdx(id, genOf(id))),
         y |-> genOf(id) * Px(NODE_HEIGHT)]]

\* positions after the second pass; a later set() of the same id overwrites
InitialPositions(d, order) ==
  LET ids == UNION {Range(order[g]) : g \in DOMAIN order}
      genOf(id) == MaxOf({g \in DOMAIN order : id \in Range(order[g])})
      lastIdx(id, g) == MaxOf({i \in 1..Len(order[g]) : order[g][i] = id})
  IN [id \in ids |->
        [x |-> InitialX(d, order[genOf(id)], lastIdx(id, genOf(id))),
         y |-> genOf(id) * Px(NODE_HEIGHT + V_GAP)]]

\* ---- third pass: centring ----

\* positions.get(id)!: the entry, or a placeholder where the code would have
\* dereferenced undefined (the step then reports threw)
Undefined == [x |-> 0, y |-> 0]
PosGet(pos, id) == IF id \in DOMAIN pos THEN pos[id] ELSE Undefined
PosSet(pos, id, v) == [k \in DOMAIN pos \cup {id} |-> IF k = id THEN v ELSE pos[k]]

Even(v) == v % 2 = 0
Half(v) == v \div 2

\* faulty variant: the partners are taken unfiltered
ValidPartners_Unfiltered(couple, pos) == couple.partner_ids

\* couple.partner_ids.filter(id => positions.has(id))
ValidPartners(couple, pos) ==
  SelectSeq(couple.partner_ids, LAMBDA id : id \in DOMAIN pos)

\* a 2-partner couple that includes soleParent and whose merged set has all kids
coveredByCouple(d, kids, soleParent) ==
  \E i \in 1..Len(d.couples) :
     LET c == d.couples[i]
     IN /\ Len(c.partner_ids) = 2
        /\ Includes(c.partner_ids, soleParent)
        /\ \A kid \in kids : kid \in mergedChildrenByCoupleKey(d, coupleKey(c.partner_ids))

\* the common guards of steps (a), (b) and of junction creation
Skipped(d, couple, pos) ==
  LET kids == getMergedChildren(d, couple)
      vp == ValidPartners(couple, pos)
  IN \/ kids = {}
     \/ Len(vp) = 0
     \/ Len(vp) = 1 /\ coveredByCouple(d, kids, vp[1])

\* (min + max + NODE_WIDTH) / 2 over a non-empty set of x
CenterOf(xs) == Half(MinOf(xs) + MaxOf(xs) + Px(NODE_WIDTH))
CenterExact(xs) == Even(MinOf(xs) + MaxOf(xs) + Px(NODE_WIDTH))

Unchanged(pos) == [pos |-> pos, threw |-> FALSE, exact |-> TRUE]

\* step (a) for one couple: centre the couple over its children
CenterParentsStep(d, pos, couple) ==
  LET kids == getMergedChildren(d, couple)
      vp == ValidPartners(couple, pos)
      childXs == {pos[k].x : k \in kids \cap DOMAIN pos}
      childCenter == CenterOf(childXs)
      coupleWidth == Px(NODE_WIDTH * 2 + COUPLE_GAP)
      coupleStartX == childCenter - Half(coupleWidth)
      pos1 == PosSet(pos, vp[1], [x |-> coupleStartX, y |-> PosGet(pos, vp[1]).y])
      pos2 == PosSet(pos1, vp[2], [x |-> coupleStartX + Px(NODE_WIDTH + COUPLE_GAP),
                                   y |-> PosGet(pos1, vp[2]).y])
      lone == PosSet(pos, vp[1], [x |-> childCenter - Half(Px(NODE_WIDTH)),
                                  y |-> PosGet(pos, vp[1]).y])
  IN IF Skipped(d, couple, pos) \/ childXs = {} THEN Unchanged(pos)
     ELSE IF Len(vp) = 2
          THEN [pos |-> pos2,
                threw |-> vp[1] \notin DOMAIN pos \/ vp[2] \notin DOMAIN pos,
                exact |-> CenterExact(childXs)]
     ELSE IF Len(vp) = 1
          THEN [pos |-> lone,
                threw |-> vp[1] \notin DOMAIN pos,
                exact |-> CenterExact(childXs)]
     ELSE Unchanged(pos)

\* faulty variant: every child is put under the partner centre, the block is
\* not kept
CenterChildrenStep_Collapse(d, pos, couple) ==
  LET kids == getMergedChildren(d, couple)
      vp == ValidPartners(couple, pos)
      parentXs == {PosGet(pos, vp[i]).x : i \in 1..Len(vp)}
      parentCenter == CenterOf(parentXs)
      kidIds == kids \cap DOMAIN pos
  IN IF Skipped(d, couple, pos) \/ kidIds = {} THEN Unchanged(pos)
     ELSE [pos |-> [k \in DOMAIN pos |->
                      IF k \in kidIds
                      THEN [x |-> parentCenter - Half(Px(NODE_WIDTH)), y |-> pos[k].y]
                      ELSE pos[k]],
           threw |-> \E i \in 1..Len(vp) : vp[i] \notin DOMAIN pos,
           exact |-> CenterExact(parentXs)]

\* step (b) for one couple: shift its children, as a block, under the couple
CenterChildrenStep(d, pos, couple) ==
  LET kids == getMergedChildren(d, couple)
      vp == ValidPartners(couple, pos)
      parentXs == {PosGet(pos, vp[i]).x : i \in 1..Len(vp)}
      parentCenter == CenterOf(parentXs)
      kidIds == kids \cap DOMAIN pos
      kidXs == {pos[k].x : k \in kidIds}
      kidCenter == CenterOf(kidXs)
      shift == parentCenter - kidCenter
  IN IF Skipped(d, couple, pos) \/ kidIds = {} THEN Unchanged(pos)
     ELSE [pos |-> [k \in DOMAIN pos |->
                      IF k \in kidIds THEN [x |-> pos[k].x + shift, y |-> pos[k].y]
                      ELSE pos[k]],
           threw |-> \E i \in 1..Len(vp) : vp[i] \notin DOMAIN pos,
           exact |-> CenterExact(parentXs) /\ CenterExact(kidXs)]

\* ---- normalise: minimum x and minimum y become the margin ----
\* faulty variant: the minimum becomes 0, the margin is left out
NormalizePositions_ToZero(pos) ==
  IF DOMAIN pos = {} THEN pos
  ELSE LET minX == MinOf({pos[k].x : k \in DOMAIN pos})
           minY == MinOf({pos[k].y : k \in DOMAIN pos})
       IN [k \in DOMAIN pos |-> [x |-> pos[k].x - minX, y |-> pos[k].y - minY]]

NormalizePositions(pos) ==
  IF DOMAIN pos = {} THEN pos
  ELSE LET minX == MinOf({pos[k].x : k \in DOMAIN pos})
           minY == MinOf({pos[k].y : k \in DOMAIN pos})
       IN [k \in DOMAIN pos |->
             [x |-> pos[k].x - minX + Px(MARGIN), y |-> pos[k].y - minY + Px(MARGIN)]]

\* ---- React Flow nodes ----
PersonId(id) == <<"person", id>>
JunctionId(fid) == <<"junction", fid>>

RECURSIVE PersonNodes(_, _)
PersonNodes(nodes, pos) ==
  IF nodes = <<>> THEN <<>>
  ELSE IF Head(nodes).id \in DOMAIN pos
       THEN <<[id |-> PersonId(Head(nodes).id), type |-> "personNode",
               x |-> pos[Head(nodes).id].x, y |-> pos[Head(nodes).id].y]>>
            \o PersonNodes(Tail(nodes), pos)
       ELSE PersonNodes(Tail(nodes), pos)

\* the junction node of one couple (Skipped couples get none)
JunctionNode(couple, pos) ==
  LET vp == ValidPartners(couple, pos)
      partnerXs == {PosGet(pos, vp[i]).x : i \in 1..Len(vp)}
      partnerY == PosGet(pos, vp[1]).y
      midX == CenterOf(partnerXs)
  IN [id |-> JunctionId(couple.family_id), type |-> "default",
      x |-> midX - Half(Px(JUNCTION_SIZE)),
      y |-> partnerY + Px(NODE_HEIGHT) - Px(JUNCTION_DROP)]

\* the loop over the couples: the junction nodes pushed, the keys of junctionIds
\* (families of the couples that got a junction), whether a partner's position
\* was dereferenced while undefined, and whether the midpoints are exact
RECURSIVE JunctionNodeList(_, _, _)
JunctionNodeList(d, pos, i) ==
  IF i > Len(d.couples) THEN <<>>
  ELSE IF Skipped(d, d.couples[i], pos) THEN JunctionNodeList(d, pos, i + 1)
  ELSE <<JunctionNode(d.couples[i], pos)>> \o JunctionNodeList(d, pos, i + 1)

JunctionNodes(d, pos, from) ==
  LET made == {i \in from..Len(d.couples) : ~Skipped(d, d.couples[i], pos)}
  IN [nodes |-> JunctionNodeList(d, pos, from),
      families |-> {d.couples[i].family_id : i \in made},
      threw |-> \E i \in made :
                   \E p \in Range(ValidPartners(d.couples[i], pos)) : p \notin DOMAIN pos,
      exact |-> \A i \in made :
                   LET vp == ValidPartners(d.couples[i], pos)
                   IN CenterExact({PosGet(pos, vp[j]).x : j \in 1..Len(vp)})]

\* ---- React Flow edges ----
RECURSIVE CoupleConnectors(_, _, _)
CoupleConnectors(d, pos, i) ==
  IF i > Len(d.couples) THEN <<>>
  ELSE LET vp == ValidPartners(d.couples[i], pos)
       IN IF Len(vp) = 2
          THEN <<[id |-> <<"couple", d.couples[i].family_id>>,
                  source |-> PersonId(vp[1]), target |-> PersonId(vp[2]),
                  type |-> "straight"]>> \o CoupleConnectors(d, pos, i + 1)
          ELSE CoupleConnectors(d, pos, i + 1)

\* String(undefined) when the couple has no positioned partner
NoSource == <<"undefined">>

RECURSIVE ParentJunctionEdges(_, _, _, _)
ParentJunctionEdges(d, pos, jfams, i) ==
  IF i > Len(d.couples) THEN <<>>
  ELSE IF d.couples[i].family_id \notin jfams THEN ParentJunctionEdges(d, pos, jfams, i + 1)
  ELSE LET vp == ValidPartners(d.couples[i], pos)
       IN <<[id |-> <<"parent-junction", d.couples[i].family_id>>,
             source |-> IF Len(vp) > 0 THEN PersonId(vp[1]) ELSE NoSource,
             target |-> JunctionId(d.couples[i].family_id),
             type |-> "straight"]>> \o ParentJunctionEdges(d, pos, jfams, i + 1)

\* the junction a child edge is routed to: the family's own, else that of the
\* first 2-partner couple (in list order) whose merged set has the child and
\* that has a junction; NoJunction when there is none
NoJunction == <<"none">>
\* faulty variant: child edges are never rerouted
EdgeJunction_Never(d, jfams, edge) == NoJunction

EdgeJunction(d, jfams, edge) ==
  LET cover == {i \in 1..Len(d.couples) :
                  /\ Len(d.couples[i].partner_ids) = 2
                  /\ edge.child_id \in
                       mergedChildrenByCoupleKey(d, coupleKey(d.couples[i].partner_ids))
                  /\ d.couples[i].family_id \in jfams}
  IN IF edge.family_id \in jfams THEN JunctionId(edge.family_id)
     ELSE IF cover # {} THEN JunctionId(d.couples[MinOf(cover)].family_id)
     ELSE NoJunction

\* faulty variant: one rendered edge per raw edge, no (family, child) deduplication
RECURSIVE ChildEdges_NoDedupe(_, _, _, _, _)
ChildEdges_NoDedupe(d, pos, jfams, i, seen) ==
  IF i > Len(d.edges) THEN <<>>
  ELSE LET edge == d.edges[i]
           junctionId == EdgeJunction(d, jfams, edge)
       IN IF edge.parent_id \notin DOMAIN pos \/ edge.child_id \notin DOMAIN pos
          THEN ChildEdges_NoDedupe(d, pos, jfams, i + 1, seen)
          ELSE <<[id |-> <<"edge", edge.family_id, edge.child_id>>,
                  source |-> IF junctionId # NoJunction THEN junctionId
                             ELSE PersonId(edge.parent_id),
                  target |-> PersonId(edge.child_id),
                  type |-> "smoothstep"]>>
               \o ChildEdges_NoDedupe(d, pos, jfams, i + 1, seen)

\* faulty variant: edges are rendered whether or not their ends are positioned
RECURSIVE ChildEdges_Unchecked(_, _, _, _, _)
ChildEdges_Unchecked(d, pos, jfams, i, seen) ==
  IF i > Len(d.edges) THEN <<>>
  ELSE LET edge == d.edges[i]
           key == <<edge.family_id, edge.child_id>>
           junctionId == EdgeJunction(d, jfams, edge)
       IN IF key \in seen THEN ChildEdges_Unchecked(d, pos, jfams, i + 1, seen)
          ELSE <<[id |-> <<"edge", edge.family_id, edge.child_id>>,
                  source |-> IF junctionId # NoJunction THEN junctionId
                             ELSE PersonId(edge.parent_id),
                  target |-> PersonId(edge.child_id),
                  type |-> "smoothstep"]>>
               \o ChildEdges_Unchecked(d, pos, jfams, i + 1, seen \cup {key})

RECURSIVE ChildEdges(_, _, _, _, _)
ChildEdges(d, pos, jfams, i, seen) ==
  IF i > Len(d.edges) THEN <<>>
  ELSE LET edge == d.edges[i]
           key == <<edge.family_id, edge.child_id>>
           junctionId == EdgeJunction(d, jfams, edge)
       IN IF edge.parent_id \notin DOMAIN pos \/ edge.child_id \notin DOMAIN pos
          THEN ChildEdges(d, pos, jfams, i + 1, seen)
          ELSE IF key \in seen THEN ChildEdges(d, pos, jfams, i + 1, seen)
          ELSE <<[id |-> <<"edge", edge.family_id, edge.child_id>>,
                  source |-> IF junctionId # NoJunction THEN junctionId
                             ELSE PersonId(edge.parent_id),
                  target |-> PersonId(edge.child_id),
                  type |-> "smoothstep"]>>
               \o ChildEdges(d, pos, jfams, i + 1, seen \cup {key})

BuildEdges(d, pos, jfams) ==
  CoupleConnectors(d, pos, 1) \o ParentJunctionEdges(d, pos, jfams, 1)
     \o ChildEdges(d, pos, jfams, 1, {})

\* ---- inputs ----
Node(id, gen) == [id |-> id, generation |-> gen]
Edge(p, c, f) == [parent_id |-> p, child_id |-> c, family_id |-> f]
Couple(f, ps) == [family_id |-> f, partner_ids |-> ps]
TreeData(ns, es, cs) == [nodes |-> ns, edges |-> es, couples |-> cs]

\* focus 42 at depth 1/1: family X = 5 (10, 11) with child 42, family Y = 6 (42, 50)
\* with children 60 and 61
EndToEndData ==
  TreeData(<<Node(10, -1), Node(11, -1), Node(42, 0), Node(50, 0), Node(60, 1), Node(61, 1)>>,
           <<Edge(10, 42, 5), Edge(11, 42, 5), Edge(42, 60, 6), Edge(50, 60, 6),
             Edge(42, 61, 6), Edge(50, 61, 6)>>,
           <<Couple(5, <<10, 11>>), Couple(6, <<42, 50>>)>>)

\* ---- bounded input families ----
NumParents == 2
NumKids == 3

RECURSIVE SetToSeq(_)
SetToSeq(S) == IF S = {} THEN <<>> ELSE LET m == MinOf(S) IN <<m>> \o SetToSeq(S \ {m})

RECURSIVE Flatten(_)
Flatten(ss) == IF ss = <<>> THEN <<>> ELSE Head(ss) \o Flatten(Tail(ss))

\* the edges the backend emits for one family: for each child, one edge per member
FamilyEdges(fid, partners, kids) ==
  Flatten([i \in 1..Len(kids) |->
             [j \in 1..Len(partners) |-> Edge(partners[j], kids[i], fid)]])

\* Blended two-generation inputs: one or two family records over NumParents
\* parents (generation 0) and NumKids children (generation 1); the i-th record
\* has family_id i; nodes are the referenced persons in id order
Parents == 1..NumParents
Kids == (NumParents + 1)..(NumParents + NumKids)
PartnerSeqs == {<<p>> : p \in Parents}
                 \cup {pq \in Parents \X Parents : pq[1] # pq[2]}
FamilyRecs == {[partners |-> ps, kids |-> ks] : ps \in PartnerSeqs, ks \in SUBSET Kids}
FamilyLists == {<<f>> : f \in FamilyRecs} \cup {<<f, g>> : f \in FamilyRecs, g \in FamilyRecs}

BlendedData(fl) ==
  LET persons == UNION {Range(fl[i].partners) \cup fl[i].kids : i \in 1..Len(fl)}
      ids == SetToSeq(persons)
  IN TreeData([i \in 1..Len(ids) |-> Node(ids[i], IF ids[i] \in Parents THEN 0 ELSE 1)],
              Flatten([i \in 1..Len(fl) |-> FamilyEdges(i, fl[i].partners, SetToSeq(fl[i].kids))]),
              [i \in 1..Len(fl) |-> Couple(i, fl[i].partners)])

Blended == {BlendedData(fl) : fl \in FamilyLists}

\* Pedigrees of three generations: grandparents (1, 2) with one child c among the
\* partners 3 and 4, optionally the other grandparents (7, 8) with the other
\* partner as their child, and the couple of 3 and 4 with children among 5 and 6;
\* the couples are listed in every order
Orderings(S) ==
  {s \in [1..Cardinality(S) -> S] : \A i, j \in 1..Cardinality(S) : s[i] = s[j] => i = j}

Family(fid, partners, kids) == [fid |-> fid, partners |-> partners, kids |-> kids]

PedigreeFamilySets ==
  {{Family(1, <<1, 2>>, <<c>>), Family(2, ps, SetToSeq(ks))}
      \cup (IF both THEN {Family(3, <<7, 8>>, <<7 - c>>)} ELSE {}) :
     c \in {3, 4}, ps \in {<<3, 4>>, <<4, 3>>}, ks \in {{5}, {6}, {5, 6}},
     both \in BOOLEAN}

PedigreeGen == [id \in 1..8 |-> IF id \in {1, 2, 7, 8} THEN -1 ELSE IF id \in {3, 4} THEN 0 ELSE 1]

\* Two branches: grandparents (1, 2) with children 3 and 5, the couples (3, 4)
\* and (5, 6), each with one child (7, 8); the couples are listed in every order
BranchFamilySets ==
  {{Family(1, <<1, 2>>, <<3, 5>>), Family(2, p34, <<7>>), Family(3, p56, <<8>>)} :
     p34 \in {<<3, 4>>, <<4, 3>>}, p56 \in {<<5, 6>>, <<6, 5>>}}

BranchGen == [id \in 1..8 |-> IF id \in {1, 2} THEN -1 ELSE IF id \in {3, 4, 5, 6} THEN 0 ELSE 1]

PedigreeData(fs, order, gen) ==
  LET persons == UNION {Range(f.partners) \cup Range(f.kids) : f \in fs}
      byGen == SetToSeq({p \in persons : gen[p] = -1})
                 \o SetToSeq({p \in persons : gen[p] = 0})
                 \o SetToSeq({p \in persons : gen[p] = 1})
      byFid == SetToSeq({f.fid : f \in fs})
      famOf(fid) == CHOOSE f \in fs : f.fid = fid
  IN TreeData([i \in 1..Len(byGen) |-> Node(byGen[i], gen[byGen[i]])],
              Flatten([i \in 1..Len(byFid) |->
                         FamilyEdges(byFid[i], famOf(byFid[i]).partners, famOf(byFid[i]).kids)]),
              [i \in 1..Len(order) |-> Couple(order[i].fid, order[i].partners)])

Pedigrees ==
  UNION {{PedigreeData(fs, order, PedigreeGen) : order \in Orderings(fs)} :
           fs \in PedigreeFamilySets}
    \cup UNION {{PedigreeData(fs, order, BranchGen) : order \in Orderings(fs)} :
                  fs \in BranchFamilySets}

\* Degraded inputs around the family 1 = (1, 2) with child 3: any subset of the
\* three persons is missing from the node list, the couple's partner list is any
\* list of at most two ids among the persons and the unknown id 9, and one stray
\* edge may name an unknown parent, child or family, or both parents' edges of a
\* family without couple record may be present
DegradedNodes == {SetToSeq(S) : S \in SUBSET {1, 2, 3}}
DegradedPartners == {<<>>} \cup {<<p>> : p \in {1, 2, 3, 9}}
                      \cup ({1, 2, 3, 9} \X {1, 2, 3, 9})
StrayEdges == {<<>>} \cup {<<Edge(p, c, f)>> : p \in {1, 9}, c \in {3, 9}, f \in {1, 7}}
                \cup {<<Edge(1, 3, 7), Edge(2, 3, 7)>>}

DegradedData(ids, ps, stray) ==
  TreeData([i \in 1..Len(ids) |-> Node(ids[i], IF ids[i] = 3 THEN 1 ELSE 0)],
           <<Edge(1, 3, 1), Edge(2, 3, 1)>> \o stray,
           <<Couple(1, ps)>>)

Degraded == {DegradedData(ids, ps, stray) :
               ids \in DegradedNodes, ps \in DegradedPartners, stray \in StrayEdges}

\* Anomalous inputs: child 5 is recorded under two 2-partner couples with
\* disjoint partners, (1, 2) and (3, 4), whose family ids are 1 and 2 either way
\* round; the couples may have a second child each (6 and 8), and partner 2 may have a
\* 1-partner record (family 3) with child 7; the couples are listed in every order
SharedChildFamilySets ==
  {{Family(a, <<1, 2>>, IF second THEN <<5, 6>> ELSE <<5>>), Family(3 - a, <<3, 4>>, IF second THEN <<5, 8>> ELSE <<5>>)}
      \cup (IF lone THEN {Family(3, <<2>>, <<7>>)} ELSE {}) :
     a \in {1, 2}, second \in BOOLEAN, lone \in BOOLEAN}

SharedChildGen == [id \in 1..8 |-> IF id \in 1..4 THEN 0 ELSE 1]

SharedChild ==
  UNION {{PedigreeData(fs, order, SharedChildGen) : order \in Orderings(fs)} :
           fs \in SharedChildFamilySets}

\* Degraded blended inputs: the couple (1, 2) (family 1, child 3) and the
\* 1-partner record of 1 (family 2, child 4), in both list orders, with any subset
\* of the four persons missing from the node list
PartialNodes == {SetToSeq(S) : S \in SUBSET {1, 2, 3, 4}}

PartialData(ids, coupleFirst) ==
  TreeData([i \in 1..Len(ids) |-> Node(ids[i], IF ids[i] \in {1, 2} THEN 0 ELSE 1)],
           FamilyEdges(1, <<1, 2>>, <<3>>) \o FamilyEdges(2, <<1>>, <<4>>),
           IF coupleFirst THEN <<Couple(1, <<1, 2>>), Couple(2, <<1>>)>>
           ELSE <<Couple(2, <<1>>), Couple(1, <<1, 2>>)>>)

Partial == {PartialData(ids, coupleFirst) : ids \in PartialNodes, coupleFirst \in BOOLEAN}

\* A married child: the couple (1, 2) with children 5, 6 and optionally 8, the
\* child 6 having a partner 7 in the tree (a couple without children), the
\* couples listed in either order
InLawFamilySets ==
  {{Family(1, <<1, 2>>, kids), Family(2, ps, <<>>)} :
     kids \in {<<5, 6>>, <<5, 6, 8>>}, ps \in {<<6, 7>>, <<7, 6>>}}

InLaw ==
  UNION {{PedigreeData(fs, order, SharedChildGen) : order \in Orderings(fs)} :
           fs \in InLawFamilySets}

Inputs ==
  {EndToEndData} \cup Blended \cup Pedigrees \cup Degraded \cup SharedChild \cup Partial
    \cup InLaw


\* ---- state ----
VARIABLES
  data,         \* the TreeData handed to computeTreeLayout
  pc,           \* position in the request / in computeTreeLayout
  genOrder, positions, iter, idx, rfNodes, rfEdges, junctionIds, exact,
  store, req, outcome, level, frontier, visited, tnodes, tedges, tcouples,
  maxAncestorDepth, maxDescendantDepth, truncated, elapsed,
  individualId,     \* TreePage: the focus person of the route
  ancestorDepth, descendantDepth,   \* TreePage: the requested depths
  treeData,         \* TreePage: the loaded tree data's maxima, or NotLoaded
  locked,           \* DepthSlider: the lock
  extent,           \* the maxima the server reports for each person
  resetDue,         \* TreePage: the effect that resets the depths is pending
  event             \* the last slider move

layoutVars == <<genOrder, positions, iter, idx, rfNodes, rfEdges, junctionIds, exact>>
travVars == <<store, req, outcome, level, frontier, visited, tnodes, tedges, tcouples>>
probeVars == <<maxAncestorDepth, maxDescendantDepth, truncated, elapsed>>
pageVars == <<individualId, ancestorDepth, descendantDepth, treeData, locked, extent,
              resetDue, event>>
vars == <<data, pc, layoutVars, travVars, probeVars, pageVars>>

Empty == [k \in {} |-> 0]
NoStore == [persons |-> {}, families |-> <<>>]
NoRequest == [focus_id |-> 0, ancestor_depth |-> 0, descendant_depth |-> 0]

\* TreePage and DepthSlider are not mounted
NotLoaded == [max_ancestor_depth |-> -1, max_descendant_depth |-> -1]
NoEvent == [slider |-> "none", value |-> 0, locked |-> FALSE]
PageIdle ==
  /\ individualId = 0
  /\ ancestorDepth = 0
  /\ descendantDepth = 0
  /\ treeData = NotLoaded
  /\ locked = FALSE
  /\ extent = Empty
  /\ resetDue = FALSE
  /\ event = NoEvent

LayoutInit ==
  /\ genOrder = Empty
  /\ positions = Empty
  /\ iter = 0
  /\ idx = 1
  /\ rfNodes = <<>>
  /\ rfEdges = <<>>
  /\ junctionIds = {}
  /\ exact = TRUE

TraversalIdle ==
  /\ outcome = "none"
  /\ level = 0
  /\ frontier = {}
  /\ visited = {}
  /\ tnodes = <<>>
  /\ tedges = <<>>
  /\ tcouples = <<>>

ProbeIdle ==
  /\ maxAncestorDepth = 0
  /\ maxDescendantDepth = 0
  /\ truncated = FALSE
  /\ elapsed = 0

\* computeTreeLayout is called with one of the bounded inputs
Init ==
  /\ data \in Inputs
  /\ pc = "order"
  /\ LayoutInit
  /\ store = NoStore
  /\ req = NoRequest
  /\ TraversalIdle
  /\ ProbeIdle
  /\ PageIdle

\* ---- computeTreeLayout, step by step ----

\* first pass (all generations)
OrderNodes ==
  /\ pc = "order"
  /\ genOrder' = [g \in Generations(data) |-> OrderGeneration(data, g)]
  /\ pc' = "initial"
  /\ UNCHANGED <<data, positions, iter, idx, rfNodes, rfEdges, junctionIds, exact>>
  /\ UNCHANGED <<travVars, probeVars, pageVars>>

\* second pass (all generations)
AssignInitialX ==
  /\ pc = "initial"
  /\ positions' = InitialPositions(data, genOrder)
  /\ pc' = IF Len(data.couples) = 0 THEN "normalize" ELSE "parents"
  /\ UNCHANGED <<data, genOrder, iter, idx, rfNodes, rfEdges, junctionIds, exact>>
  /\ UNCHANGED <<travVars, probeVars, pageVars>>

\* third pass, first loop, one couple
CenterParents ==
  /\ pc = "parents"
  /\ LET r == CenterParentsStep(data, positions, data.couples[idx])
     IN IF r.threw
        THEN /\ pc' = "threw"
             /\ UNCHANGED <<positions, idx, exact>>
        ELSE /\ positions' = r.pos
             /\ exact' = (exact /\ r.exact)
             /\ IF idx < Len(data.couples)
                THEN idx' = idx + 1 /\ pc' = "parents"
                ELSE idx' = 1 /\ pc' = "children"
  /\ UNCHANGED <<data, genOrder, iter, rfNodes, rfEdges, junctionIds>>
  /\ UNCHANGED <<travVars, probeVars, pageVars>>

\* third pass, second loop, one couple
CenterChildren ==
  /\ pc = "children"
  /\ LET r == CenterChildrenStep(data, positions, data.couples[idx])
         last == idx = Len(data.couples)
     IN IF r.threw
        THEN /\ pc' = "threw"
             /\ UNCHANGED <<positions, idx, iter, exact>>
        ELSE /\ positions' = r.pos
             /\ exact' = (exact /\ r.exact)
             /\ idx' = IF last THEN 1 ELSE idx + 1
             /\ iter' = IF last THEN iter + 1 ELSE iter
             /\ pc' = IF ~last THEN "children"
                      ELSE IF iter + 1 < CENTER_PASSES THEN "parents" ELSE "normalize"
  /\ UNCHANGED <<data, genOrder, rfNodes, rfEdges, junctionIds>>
  /\ UNCHANGED <<travVars, probeVars, pageVars>>

Normalize ==
  /\ pc = "normalize"
  /\ positions' = NormalizePositions(positions)
  /\ pc' = "nodes"
  /\ UNCHANGED <<data, genOrder, iter, idx, rfNodes, rfEdges, junctionIds, exact>>
  /\ UNCHANGED <<travVars, probeVars, pageVars>>

\* person nodes, then junction nodes
BuildNodes ==
  /\ pc = "nodes"
  /\ LET r == JunctionNodes(data, positions, 1)
     IN IF r.threw
        THEN /\ pc' = "threw"
             /\ UNCHANGED <<rfNodes, junctionIds, exact>>
        ELSE /\ rfNodes' = PersonNodes(data.nodes, positions) \o r.nodes
             /\ junctionIds' = r.families
             /\ exact' = (exact /\ r.exact)
             /\ pc' = "edges"
  /\ UNCHANGED <<data, genOrder, positions, iter, idx, rfEdges>>
  /\ UNCHANGED <<travVars, probeVars, pageVars>>

\* couple connectors, parent-to-junction edges, junction-to-child edges; return
MakeEdges ==
  /\ pc = "edges"
  /\ rfEdges' = BuildEdges(data, positions, junctionIds)
  /\ pc' = "done"
  /\ UNCHANGED <<data, genOrder, positions, iter, idx, rfNodes, junctionIds, exact>>
  /\ UNCHANGED <<travVars, probeVars, pageVars>>

Layout ==
  \/ OrderNodes
  \/ AssignInitialX
  \/ CenterParents
  \/ CenterChildren
  \/ Normalize
  \/ BuildNodes
  \/ MakeEdges

Next == Layout

Spec == Init /\ [][Next]_vars

\* every halving so far was applied to an even number: the fixed-point
\* coordinates are the code's floating-point coordinates
ExactArithmetic == exact

\* ---- Bounded Traversal and Depth Prober (backend; modelled from the specification) ----
DEPTH_CAP == 20
PROBE_BUDGET == 5

\* faulty variant: no record is skipped
ResolvableFamily_Always(st, f) == TRUE

\* a family record none of whose referenced persons is missing from the store
ResolvableFamily(st, f) == Range(f.partners) \cup Range(f.kids) \subseteq st.persons

\* batched lookups keyed on the frontier's id set; unresolvable records are skipped
getFamiliesWhereChild(st, ids) ==
  SelectSeq(st.families, LAMBDA f : ResolvableFamily(st, f) /\ Range(f.kids) \cap ids # {})
getFamiliesWhereMember(st, ids) ==
  SelectSeq(st.families, LAMBDA f : ResolvableFamily(st, f) /\ Range(f.partners) \cap ids # {})

\* append what is not yet present
RECURSIVE AddNodes(_, _, _)
AddNodes(nodes, ids, gen) ==
  IF ids = <<>> THEN nodes
  ELSE IF \E i \in 1..Len(nodes) : nodes[i].id = Head(ids)
       THEN AddNodes(nodes, Tail(ids), gen)
       ELSE AddNodes(Append(nodes, Node(Head(ids), gen)), Tail(ids), gen)

RECURSIVE AddCouples(_, _)
AddCouples(couples, fams) ==
  IF fams = <<>> THEN couples
  ELSE IF \E i \in 1..Len(couples) : couples[i].family_id = Head(fams).fid
       THEN AddCouples(couples, Tail(fams))
       ELSE AddCouples(Append(couples, Couple(Head(fams).fid, Head(fams).partners)), Tail(fams))

RECURSIVE AddEdges(_, _)
AddEdges(edges, new) ==
  IF new = <<>> THEN edges
  ELSE IF Head(new) \in Range(edges) THEN AddEdges(edges, Tail(new))
       ELSE AddEdges(Append(edges, Head(new)), Tail(new))

AllPartners(fams) == Flatten([i \in 1..Len(fams) |-> fams[i].partners])
AllKids(fams) == Flatten([i \in 1..Len(fams) |-> fams[i].kids])

\* one parent-to-child edge per family member, for the children in `kept`
EdgesOf(fams, kept) ==
  Flatten([i \in 1..Len(fams) |->
             FamilyEdges(fams[i].fid, fams[i].partners,
                         SelectSeq(fams[i].kids, LAMBDA k : k \in kept))])

\* errors a request can end with
RequestErrors(st, r) ==
  (IF r.ancestor_depth < 0 \/ r.descendant_depth < 0
      \/ r.ancestor_depth > DEPTH_CAP \/ r.descendant_depth > DEPTH_CAP
   THEN {"InvalidArgument"} ELSE {})
  \cup (IF r.focus_id \notin st.persons THEN {"NotFound"} ELSE {})

\* faulty variant: no visited set
NextFrontier_NoVisited(found, seen) == found

\* the frontier that is expanded next: never a person already visited in this direction
NextFrontier(found, seen) == found \ seen

\* faulty variants: one level too many; no depth bound
MoreLevels_OffByOne(lvl, depth, front) == lvl <= depth /\ front # {}
MoreLevels_Unbounded(lvl, depth, front) == front # {} /\ lvl < DEPTH_CAP

\* may another level be expanded in this direction
MoreLevels(lvl, depth, front) == lvl < depth /\ front # {}

NoData == TreeData(<<>>, <<>>, <<>>)

\* argument and focus checks; the focus becomes the only node, generation 0
Validate ==
  /\ pc = "request"
  /\ IF RequestErrors(store, req) # {}
     THEN /\ outcome' \in RequestErrors(store, req)
          /\ pc' = "failed"
          /\ UNCHANGED <<tnodes, frontier, visited>>
     ELSE /\ outcome' = "none"
          /\ pc' = "ancestors"
          /\ tnodes' = <<Node(req.focus_id, 0)>>
          /\ frontier' = {req.focus_id}
          /\ visited' = {req.focus_id}
  /\ UNCHANGED <<data, store, req, level, tedges, tcouples>>
  /\ UNCHANGED <<layoutVars, probeVars, pageVars>>

\* one level of the ancestor pass
AncestorLevel ==
  /\ pc = "ancestors"
  /\ MoreLevels(level, req.ancestor_depth, frontier)
  /\ LET fams == getFamiliesWhereChild(store, frontier)
         found == Range(AllPartners(fams))
     IN /\ tnodes' = AddNodes(tnodes, AllPartners(fams), -(level + 1))
        /\ tcouples' = AddCouples(tcouples, fams)
        /\ tedges' = AddEdges(tedges, EdgesOf(fams, frontier))
        /\ frontier' = NextFrontier(found, visited)
        /\ visited' = visited \cup found
  /\ level' = level + 1
  /\ UNCHANGED <<data, pc, store, req, outcome>>
  /\ UNCHANGED <<layoutVars, probeVars, pageVars>>

\* the ancestor pass is over; the descendant pass starts again from the focus
StartDescendants ==
  /\ pc = "ancestors"
  /\ ~MoreLevels(level, req.ancestor_depth, frontier)
  /\ pc' = "descendants"
  /\ level' = 0
  /\ frontier' = {req.focus_id}
  /\ visited' = {req.focus_id}
  /\ UNCHANGED <<data, store, req, outcome, tnodes, tedges, tcouples>>
  /\ UNCHANGED <<layoutVars, probeVars, pageVars>>

\* one level of the descendant pass
DescendantLevel ==
  /\ pc = "descendants"
  /\ MoreLevels(level, req.descendant_depth, frontier)
  /\ LET fams == getFamiliesWhereMember(store, frontier)
         found == Range(AllKids(fams))
     IN /\ tnodes' = AddNodes(AddNodes(tnodes, AllPartners(fams), level),
                              AllKids(fams), level + 1)
        /\ tcouples' = AddCouples(tcouples, fams)
        /\ tedges' = AddEdges(tedges, EdgesOf(fams, found))
        /\ frontier' = NextFrontier(found, visited)
        /\ visited' = visited \cup found
  /\ level' = level + 1
  /\ UNCHANGED <<data, pc, store, req, outcome>>
  /\ UNCHANGED <<layoutVars, probeVars, pageVars>>

\* the tree result is returned and handed to computeTreeLayout
Respond ==
  /\ pc = "descendants"
  /\ ~MoreLevels(level, req.descendant_depth, frontier)
  /\ outcome' = "ok"
  /\ data' = TreeData(tnodes, tedges, tcouples)
  /\ pc' = "order"
  /\ UNCHANGED <<store, req, level, frontier, visited, tnodes, tedges, tcouples>>
  /\ UNCHANGED <<layoutVars, probeVars, pageVars>>

Traversal == Validate \/ AncestorLevel \/ StartDescendants \/ DescendantLevel \/ Respond

\* ---- stores and requests ----
MaxPerson == 3
MaxLinks == 2
MaxDepth == 2

\* Stores of single-parent, single-child family records over persons 1..MaxPerson:
\* any set of at most MaxLinks (member, child) links, cycles and self-parentage included
Links == (1..MaxPerson) \X (1..MaxPerson)
LinkCode(l) == l[1] * (MaxPerson + 1) + l[2]
LinkOf(code) == <<code \div (MaxPerson + 1), code % (MaxPerson + 1)>>
LinkStore(ls) ==
  LET codes == SetToSeq({LinkCode(l) : l \in ls})
  IN [persons |-> 1..MaxPerson,
      families |-> [i \in 1..Len(codes) |->
                      Family(i, <<LinkOf(codes[i])[1]>>, <<LinkOf(codes[i])[2]>>)]]
LinkStores == {LinkStore(ls) : ls \in {l \in SUBSET Links : Cardinality(l) <= MaxLinks}}

\* The store of the end-to-end scenario, alone or followed by one more record
\* that may reference the missing person 99
EndToEndFamilies == <<Family(5, <<10, 11>>, <<42>>), Family(6, <<42, 50>>, <<60, 61>>)>>
ExtraFamilies ==
  {<<>>} \cup {<<Family(7, ms, ks)>> : ms \in {<<99>>, <<42, 99>>, <<10, 11>>},
                                       ks \in {<<42>>, <<99>>, <<60, 99>>}}
EndToEndStores ==
  {[persons |-> {10, 11, 42, 50, 60, 61}, families |-> EndToEndFamilies \o x] :
     x \in ExtraFamilies}

Request(f, a, d) == [focus_id |-> f, ancestor_depth |-> a, descendant_depth |-> d]
Depths == -1..MaxDepth

RequestInit ==
  /\ \/ /\ store \in LinkStores
        /\ req \in {Request(f, a, d) : f \in {0, 1}, a \in Depths, d \in Depths}
     \/ /\ store \in EndToEndStores
        /\ req \in {Request(f, a, d) : f \in {0, 10, 42, 60}, a \in Depths, d \in Depths}
  /\ data = NoData
  /\ pc = "request"
  /\ LayoutInit
  /\ TraversalIdle
  /\ ProbeIdle
  /\ PageIdle

RequestNext == Traversal \/ Layout

\* a tree request: traversal, then layout of the result
RequestSpec == RequestInit /\ [][RequestNext]_vars /\ WF_vars(RequestNext)

\* ---- Depth Prober ----
MaxChain == 21
SlowLookup == 3

\* the persons one level further in a direction
ParentsOf(st, ids) == Range(AllPartners(getFamiliesWhereChild(st, ids)))
ChildrenOf(st, ids) == Range(AllKids(getFamiliesWhereMember(st, ids)))
Beyond(st, dir, ids) == IF dir = "probeUp" THEN ParentsOf(st, ids) ELSE ChildrenOf(st, ids)

\* faulty variant: no depth cap
ProbeMay_NoCap(lvl, spent) == spent < PROBE_BUDGET

\* may the prober expand another level
ProbeMay(lvl, spent) == lvl < DEPTH_CAP /\ spent < PROBE_BUDGET

\* record the deepest completed level of the direction being probed
Record(dir, lvl) ==
  /\ maxAncestorDepth' = IF dir = "probeUp" THEN lvl ELSE maxAncestorDepth
  /\ maxDescendantDepth' = IF dir = "probeDown" THEN lvl ELSE maxDescendantDepth

\* the probe of one direction is over: go on with the other direction, or return
Turn(dir) ==
  IF dir = "probeUp"
  THEN /\ pc' = "probeDown"
       /\ level' = 0
       /\ frontier' = {req.focus_id}
       /\ visited' = {req.focus_id}
  ELSE /\ pc' = "probed"
       /\ UNCHANGED <<level, frontier, visited>>

\* one level of the probe; the lookup takes no time or SlowLookup seconds
ProbeLevel ==
  /\ pc \in {"probeUp", "probeDown"}
  /\ ProbeMay(level, elapsed)
  /\ \E cost \in {0, SlowLookup} : elapsed' = elapsed + cost
  /\ LET next == NextFrontier(Beyond(store, pc, frontier), visited)
     IN IF next = {}
        THEN /\ Record(pc, level)
             /\ Turn(pc)
             /\ UNCHANGED truncated
        ELSE /\ level' = level + 1
             /\ frontier' = next
             /\ visited' = visited \cup next
             /\ UNCHANGED <<pc, maxAncestorDepth, maxDescendantDepth, truncated>>
  /\ UNCHANGED <<data, store, req, outcome, tnodes, tedges, tcouples>>
  /\ UNCHANGED <<layoutVars, pageVars>>

\* the depth cap is reached with persons still to expand
ProbeCap ==
  /\ pc \in {"probeUp", "probeDown"}
  /\ level >= DEPTH_CAP
  /\ elapsed < PROBE_BUDGET
  /\ Record(pc, level)
  /\ truncated' = TRUE
  /\ Turn(pc)
  /\ UNCHANGED <<data, store, req, outcome, tnodes, tedges, tcouples, elapsed>>
  /\ UNCHANGED <<layoutVars, pageVars>>

\* the wall-clock budget is spent: return what is complete
ProbeTimeout ==
  /\ pc \in {"probeUp", "probeDown"}
  /\ elapsed >= PROBE_BUDGET
  /\ Record(pc, level)
  /\ truncated' = TRUE
  /\ pc' = "probed"
  /\ UNCHANGED <<data, store, req, outcome, tnodes, tedges, tcouples>>
  /\ UNCHANGED <<level, frontier, visited, elapsed>>
  /\ UNCHANGED <<layoutVars, pageVars>>

Probe == ProbeLevel \/ ProbeCap \/ ProbeTimeout

\* Chains: focus 100 with up ancestors 101, 102, ... (each the single parent of
\* the one before) and down descendants 99, 98, ...; every length of the ancestor
\* chain, with no, one or MaxChain descendants
ChainStore(up, down) ==
  [persons |-> (100 - down)..(100 + up),
   families |-> [i \in 1..(up + down) |->
                   Family(i, <<100 - down + i>>, <<100 - down + i - 1>>)]]
ChainStores == {ChainStore(up, down) : up \in 0..MaxChain, down \in {0, 1, MaxChain}}

ProbeInit ==
  /\ \/ store \in LinkStores /\ req = Request(1, 0, 0)
     \/ store \in ChainStores /\ req = Request(100, 0, 0)
  /\ data = NoData
  /\ pc = "probeUp"
  /\ LayoutInit
  /\ outcome = "none"
  /\ level = 0
  /\ frontier = {req.focus_id}
  /\ visited = {req.focus_id}
  /\ tnodes = <<>>
  /\ tedges = <<>>
  /\ tcouples = <<>>
  /\ ProbeIdle
  /\ PageIdle

ProbeSpec == ProbeInit /\ [][Probe]_vars /\ WF_vars(Probe)

\* ---- TreePage with its DepthSlider ----

\* the persons a tree page is opened on
FocusIds == {1, 2}

\* the maxima a tree response may carry: the available depths of a person
MaxExtent == 2
Extents ==
  {[max_ancestor_depth |-> up, max_descendant_depth |-> down] :
     up \in 0..MaxExtent, down \in 0..MaxExtent}

\* useState(1), useState(1), useState(true); no tree data yet
PageInit ==
  /\ individualId \in FocusIds
  /\ ancestorDepth = 1
  /\ descendantDepth = 1
  /\ treeData = NotLoaded
  /\ locked = TRUE
  /\ extent \in [FocusIds -> Extents]
  /\ resetDue = FALSE
  /\ event = NoEvent
  /\ data = NoData
  /\ pc = "page"
  /\ LayoutInit
  /\ store = NoStore
  /\ req = NoRequest
  /\ TraversalIdle
  /\ ProbeIdle

\* the query for a new key: its data is there at once when the key is cached,
\* and undefined until the response arrives otherwise; without data the
\* DepthSlider is unmounted, and it mounts again with the lock set
Refetch(id) ==
  /\ treeData' \in {NotLoaded, extent[id]}
  /\ locked' = IF treeData' = NotLoaded THEN TRUE ELSE locked

\* the response of the tree query arrives
QueryResolves ==
  /\ treeData = NotLoaded
  /\ ~resetDue
  /\ treeData' = extent[individualId]
  /\ event' = NoEvent
  /\ UNCHANGED <<individualId, ancestorDepth, descendantDepth, locked, extent, resetDue>>
  /\ UNCHANGED <<data, pc, layoutVars, travVars, probeVars>>

\* faulty variant: the other depth follows without regard to its maximum
LockedDepth_NoClamp(value, max) == value

\* Math.min(value, max)
LockedDepth(value, max) == IF value < max THEN value ELSE max

\* the ancestor slider (range 0..maxAncestorDepth) is moved to value
handleAncestorChange(value) ==
  /\ treeData # NotLoaded
  /\ ~resetDue
  /\ value \in 0..treeData.max_ancestor_depth
  /\ value # ancestorDepth
  /\ ancestorDepth' = value
  /\ descendantDepth' = IF locked THEN LockedDepth(value, treeData.max_descendant_depth)
                        ELSE descendantDepth
  /\ Refetch(individualId)
  /\ event' = [slider |-> "ancestor", value |-> value, locked |-> locked]
  /\ UNCHANGED <<individualId, extent, resetDue>>
  /\ UNCHANGED <<data, pc, layoutVars, travVars, probeVars>>

\* the descendant slider (range 0..maxDescendantDepth) is moved to value
handleDescendantChange(value) ==
  /\ treeData # NotLoaded
  /\ ~resetDue
  /\ value \in 0..treeData.max_descendant_depth
  /\ value # descendantDepth
  /\ descendantDepth' = value
  /\ ancestorDepth' = IF locked THEN LockedDepth(value, treeData.max_ancestor_depth)
                      ELSE ancestorDepth
  /\ Refetch(individualId)
  /\ event' = [slider |-> "descendant", value |-> value, locked |-> locked]
  /\ UNCHANGED <<individualId, extent, resetDue>>
  /\ UNCHANGED <<data, pc, layoutVars, travVars, probeVars>>

\* the lock button: setLocked(!locked)
ToggleLock ==
  /\ treeData # NotLoaded
  /\ ~resetDue
  /\ locked' = ~locked
  /\ event' = NoEvent
  /\ UNCHANGED <<individualId, ancestorDepth, descendantDepth, treeData, extent, resetDue>>
  /\ UNCHANGED <<data, pc, layoutVars, travVars, probeVars>>

\* the route changes to another person; the page renders once with the depths it
\* has, then the effect on individualId runs
Navigate(id) ==
  /\ ~resetDue
  /\ id # individualId
  /\ individualId' = id
  /\ resetDue' = TRUE
  /\ Refetch(id)
  /\ event' = NoEvent
  /\ UNCHANGED <<ancestorDepth, descendantDepth, extent>>
  /\ UNCHANGED <<data, pc, layoutVars, travVars, probeVars>>

\* useEffect on individualId: setAncestorDepth(1), setDescendantDepth(1)
ResetDepths ==
  /\ resetDue
  /\ resetDue' = FALSE
  /\ ancestorDepth' = 1
  /\ descendantDepth' = 1
  /\ IF ancestorDepth = 1 /\ descendantDepth = 1
     THEN UNCHANGED <<treeData, locked>>
     ELSE Refetch(individualId)
  /\ event' = NoEvent
  /\ UNCHANGED <<individualId, extent>>
  /\ UNCHANGED <<data, pc, layoutVars, travVars, probeVars>>

AncestorMoved == \E value \in 0..MaxExtent : handleAncestorChange(value)
DescendantMoved == \E value \in 0..MaxExtent : handleDescendantChange(value)
Navigated == \E id \in FocusIds : Navigate(id)

Page ==
  \/ QueryResolves
  \/ AncestorMoved
  \/ DescendantMoved
  \/ ToggleLock
  \/ Navigated
  \/ ResetDepths

PageSpec == PageInit /\ [][Page]_vars

\* ---- properties of the layout ----

\* the x of the positioned partners / merged children of a couple
PartnerXs(couple, pos) == {pos[p].x : p \in Range(couple.partner_ids) \cap DOMAIN pos}
MergedKidXs(d, couple, pos) == {pos[k].x : k \in getMergedChildren(d, couple) \cap DOMAIN pos}

\* a couple the centring acts on: a positioned partner, a positioned merged
\* child, not suppressed
Centrable(d, couple, pos) ==
  ~Skipped(d, couple, pos) /\ MergedKidXs(d, couple, pos) # {}

\* the centre of the partners is the centre of the merged children block
\* (both centres are (min + max + NODE_WIDTH) / 2)
CentredOver(d, couple, pos) ==
  MinOf(PartnerXs(couple, pos)) + MaxOf(PartnerXs(couple, pos))
    = MinOf(MergedKidXs(d, couple, pos)) + MaxOf(MergedKidXs(d, couple, pos))

\* Well-formed tree data (data model invariants): distinct node ids; every couple
\* has one or two distinct partners, all nodes of one generation, and its own
\* family id; every edge joins a partner of its family's couple to a node one
\* generation below; no child is recorded under two families
WellFormed(d) ==
  LET ids == {d.nodes[i].id : i \in 1..Len(d.nodes)}
  IN /\ \A i, j \in 1..Len(d.nodes) : d.nodes[i].id = d.nodes[j].id => i = j
     /\ \A i \in 1..Len(d.couples) :
          LET ps == d.couples[i].partner_ids
          IN /\ Len(ps) \in {1, 2}
             /\ Cardinality(Range(ps)) = Len(ps)
             /\ Range(ps) \subseteq ids
             /\ \A p, q \in Range(ps) : NodeMapGen(d, p) = NodeMapGen(d, q)
             /\ \A j \in 1..Len(d.couples) :
                  d.couples[j].family_id = d.couples[i].family_id => i = j
     /\ \A i \in 1..Len(d.edges) :
          LET e == d.edges[i]
          IN /\ e.parent_id \in ids /\ e.child_id \in ids
             /\ NodeMapGen(d, e.child_id) = NodeMapGen(d, e.parent_id) + 1
             /\ \E j \in 1..Len(d.couples) :
                  /\ d.couples[j].family_id = e.family_id
                  /\ Includes(d.couples[j].partner_ids, e.parent_id)
             /\ \A j \in 1..Len(d.edges) :
                  d.edges[j].child_id = e.child_id => d.edges[j].family_id = e.family_id

\* C2: merge correctness. For a 2-partner couple with two children and a separate
\* 1-partner family of one of its partners with a third child, the returned layout
\* has the three children as the couple's one sibling block (the 1-partner family
\* is not laid out on its own), the block's centre is the couple's centre, and the
\* third child is not centred under its recorded parent alone.
MergeScenario(d, i, j) ==
  /\ Len(d.couples) = 2
  /\ i # j
  /\ Len(d.couples[i].partner_ids) = 2
  /\ Cardinality(Range(d.couples[i].partner_ids)) = 2
  /\ Len(d.couples[j].partner_ids) = 1
  /\ Includes(d.couples[i].partner_ids, d.couples[j].partner_ids[1])
  /\ Cardinality(childrenByFamily(d, d.couples[i].family_id)) = 2
  /\ Cardinality(childrenByFamily(d, d.couples[j].family_id)) = 1
  /\ childrenByFamily(d, d.couples[i].family_id)
       \cap childrenByFamily(d, d.couples[j].family_id) = {}

C2_MergedBlockCentred ==
  pc = "done" =>
    \A i, j \in 1..Len(data.couples) :
       MergeScenario(data, i, j) =>
         LET couple == data.couples[i]
             lone == data.couples[j]
             AB == childrenByFamily(data, couple.family_id)
             C == childrenByFamily(data, lone.family_id)
         IN /\ getMergedChildren(data, couple) = AB \cup C
            /\ Skipped(data, lone, positions)
            /\ CentredOver(data, couple, positions)
            /\ MergedKidXs(data, couple, positions) = {positions[k].x : k \in AB \cup C}
            /\ \A c \in C : positions[c].x # positions[lone.partner_ids[1]].x

C2_Witness ==
  /\ pc = "done"
  /\ \E i, j \in 1..Len(data.couples) : MergeScenario(data, i, j)

\* C3: centring. In the returned layout every couple the centring acts on (a
\* positioned partner, a positioned merged child, not suppressed) has the centre
\* of its partners equal to the centre of its merged children block. Stated for
\* well-formed tree data, where each child has one family.
C3_EveryCoupleCentred ==
  (pc = "done" /\ WellFormed(data)) =>
    \A i \in 1..Len(data.couples) :
       Centrable(data, data.couples[i], positions)
         => CentredOver(data, data.couples[i], positions)

\* C10: computeTreeLayout never dereferences a missing position, whatever the
\* input, and its result has one node per positioned input node.
C10_LayoutNeverThrows ==
  /\ pc # "threw"
  /\ pc = "done" =>
       {rfNodes[i].id : i \in {k \in 1..Len(rfNodes) : rfNodes[k].type = "personNode"}}
          = {PersonId(data.nodes[i].id) : i \in 1..Len(data.nodes)}

\* a couple with a partner that is not a node and a partner of the child's
\* generation, an edge whose parent, child and family are unknown
C10_Witness ==
  /\ pc = "done"
  /\ \E i \in 1..Len(data.couples) :
        /\ \E p \in Range(data.couples[i].partner_ids) : ~NodeMapHas(data, p)
        /\ \E p \in Range(data.couples[i].partner_ids) : NodeMapHas(data, p)
  /\ \E i \in 1..Len(data.edges) :
        /\ ~NodeMapHas(data, data.edges[i].parent_id)
        /\ ~NodeMapHas(data, data.edges[i].child_id)
        /\ \A j \in 1..Len(data.couples) : data.couples[j].family_id # data.edges[i].family_id

\* ---- properties of the traversal and of the prober ----

InPass == pc \in {"ancestors", "descendants"}
PassDepth == IF pc = "ancestors" THEN req.ancestor_depth ELSE req.descendant_depth

\* C4: at depth 0 / 0 the tree result is the focus alone, at generation 0, with
\* no edges and no couples.
C4_ZeroDepthIsFocusOnly ==
  (outcome = "ok" /\ req.ancestor_depth = 0 /\ req.descendant_depth = 0) =>
    /\ data.nodes = <<Node(req.focus_id, 0)>>
    /\ data.edges = <<>>
    /\ data.couples = <<>>

\* the focus is a child in one family and a partner in another
C4_Witness ==
  /\ outcome = "ok" /\ req.ancestor_depth = 0 /\ req.descendant_depth = 0
  /\ getFamiliesWhereChild(store, {req.focus_id}) # <<>>
  /\ getFamiliesWhereMember(store, {req.focus_id}) # <<>>

\* C5: every node collected so far, and every node of the tree result, has a
\* generation between -ancestor_depth and descendant_depth.
C5_GenerationWithinDepth ==
  /\ \A i \in 1..Len(tnodes) :
        /\ -req.ancestor_depth <= tnodes[i].generation
        /\ tnodes[i].generation <= req.descendant_depth
  /\ \A i \in 1..Len(data.nodes) :
        outcome = "ok" =>
          /\ -req.ancestor_depth <= data.nodes[i].generation
          /\ data.nodes[i].generation <= req.descendant_depth

\* the store has ancestors beyond the requested ancestor depth of 1
C5_Witness ==
  /\ outcome = "ok" /\ req.ancestor_depth = 1
  /\ LET ids == {data.nodes[i].id : i \in 1..Len(data.nodes)}
         top == {data.nodes[i].id :
                   i \in {k \in 1..Len(data.nodes) : data.nodes[k].generation = -1}}
     IN ParentsOf(store, top) \ ids # {}

\* the ancestors of a set of persons, over any number of levels
RECURSIVE AncestorsWithin(_, _, _)
AncestorsWithin(st, ids, n) ==
  IF n = 0 THEN {} ELSE ParentsOf(st, ids) \cup AncestorsWithin(st, ParentsOf(st, ids), n - 1)
IsOwnAncestor(st, p) == p \in AncestorsWithin(st, {p}, Cardinality(st.persons))

\* C6: a pass never runs more levels than requested (at most the cap), no level
\* expands a person visited before in that direction, and a request on a store
\* where the focus is its own ancestor ends.
C6_CyclicTraversalTerminates ==
  /\ [](InPass => level <= PassDepth /\ level <= DEPTH_CAP /\ frontier \subseteq visited)
  /\ [][(InPass /\ level' = level + 1) => frontier' \cap visited = {}]_vars
  /\ (pc = "request" /\ IsOwnAncestor(store, req.focus_id)) ~> (outcome # "none")

\* the ancestor pass of a focus that is its own ancestor stopped before the
\* requested depth: everyone it found had been visited
C6_Witness ==
  /\ IsOwnAncestor(store, req.focus_id)
  /\ pc = "ancestors" /\ level > 0 /\ level < req.ancestor_depth
  /\ frontier = {}

\* C7: a missing focus gives NotFound and a negative depth InvalidArgument, with
\* no tree result; an unresolvable family record is skipped and gives no error.
FocusMissing == req.focus_id \notin store.persons
NegativeDepth == req.ancestor_depth < 0 \/ req.descendant_depth < 0
C7_ErrorOutcomes ==
  /\ (outcome # "none" /\ FocusMissing /\ ~NegativeDepth) => outcome = "NotFound"
  /\ (outcome # "none" /\ NegativeDepth /\ ~FocusMissing) => outcome = "InvalidArgument"
  /\ (outcome # "none" /\ (FocusMissing \/ NegativeDepth)) =>
        /\ outcome \in {"NotFound", "InvalidArgument"}
        /\ pc = "failed" /\ data = NoData /\ rfNodes = <<>>
  /\ (~FocusMissing /\ ~NegativeDepth) =>
        /\ outcome \in {"none", "ok"}
        /\ pc # "failed"
        /\ {tnodes[i].id : i \in 1..Len(tnodes)} \subseteq store.persons
        /\ \A i \in 1..Len(tcouples) :
              \A j \in 1..Len(store.families) :
                 store.families[j].fid = tcouples[i].family_id
                   => ResolvableFamily(store, store.families[j])

\* a tree result from a store with a record of the focus that names a missing person
C7_Witness ==
  /\ outcome = "ok"
  /\ req.ancestor_depth > 0 /\ req.descendant_depth > 0
  /\ \E j \in 1..Len(store.families) :
        /\ ~ResolvableFamily(store, store.families[j])
        /\ req.focus_id \in Range(store.families[j].partners)

\* the depth at which a direction ends: the number of times the set of persons
\* reached can be enlarged by the persons one level beyond it
RECURSIVE GrowthSteps(_, _, _, _)
GrowthSteps(st, dir, reached, k) ==
  IF Beyond(st, dir, reached) \subseteq reached THEN k
  ELSE GrowthSteps(st, dir, reached \cup Beyond(st, dir, reached), k + 1)
TrueDepth(st, dir, focus) == GrowthSteps(st, dir, {focus}, 0)

\* C8: the prober always returns; its depths never exceed the true depths nor the
\* cap; unflagged depths are the true depths; the flag is set only at the cap or
\* when the budget is spent.
C8_ProberBestEffort ==
  /\ [](pc = "probed" =>
          /\ outcome = "none"
          /\ maxAncestorDepth <= DEPTH_CAP /\ maxDescendantDepth <= DEPTH_CAP
          /\ maxAncestorDepth <= TrueDepth(store, "probeUp", req.focus_id)
          /\ maxDescendantDepth <= TrueDepth(store, "probeDown", req.focus_id)
          /\ ~truncated =>
               /\ maxAncestorDepth = TrueDepth(store, "probeUp", req.focus_id)
               /\ maxDescendantDepth = TrueDepth(store, "probeDown", req.focus_id)
          /\ truncated =>
               \/ elapsed >= PROBE_BUDGET
               \/ maxAncestorDepth = DEPTH_CAP
               \/ maxDescendantDepth = DEPTH_CAP)
  /\ <>(pc = "probed")

\* the cap cut the ancestor probe short of the true depth
C8_Witness ==
  /\ pc = "probed" /\ truncated /\ elapsed < PROBE_BUDGET
  /\ maxAncestorDepth = DEPTH_CAP
  /\ TrueDepth(store, "probeUp", req.focus_id) > DEPTH_CAP

\* C9: the end-to-end scenario. Focus 42 at depth 1 / 1 over family X = 5 (10, 11)
\* with child 42 and family Y = 6 (42, 50) with children 60 and 61.
EndToEndRequest == store.families = EndToEndFamilies /\ req = Request(42, 1, 1)
EdgesTo(id) == {i \in 1..Len(rfEdges) : rfEdges[i].target = PersonId(id)}
C9_EndToEnd ==
  EndToEndRequest =>
    /\ outcome = "ok" =>
         /\ Range(data.nodes) = {Node(10, -1), Node(11, -1), Node(42, 0), Node(50, 0),
                                 Node(60, 1), Node(61, 1)}
         /\ Len(data.nodes) = 6
         /\ data.couples = <<Couple(5, <<10, 11>>), Couple(6, <<42, 50>>)>>
         /\ {Edge(10, 42, 5), Edge(11, 42, 5)} \subseteq Range(data.edges)
    /\ pc = "done" =>
         /\ \A id \in {60, 61} :
               /\ EdgesTo(id) # {}
               /\ \A i \in EdgesTo(id) : rfEdges[i].source = JunctionId(6)
         /\ EdgesTo(42) # {}
         /\ \A i \in EdgesTo(42) : rfEdges[i].source = JunctionId(5)

C9_Witness == EndToEndRequest /\ pc = "done"

\* ---- properties of the merged sibling groups ----

\* the records other than the i-th whose partners are a non-empty subset of the
\* partners of the i-th couple
SubsetRecords(d, i) ==
  {j \in 1..Len(d.couples) :
     /\ j # i
     /\ d.couples[j].partner_ids # <<>>
     /\ Range(d.couples[j].partner_ids) \subseteq Range(d.couples[i].partner_ids)}

\* the children some edge records under the j-th couple's family
RecordedKids(d, j) ==
  {d.edges[e].child_id : e \in {n \in 1..Len(d.edges) :
                                  d.edges[n].family_id = d.couples[j].family_id}}

\* C11: merge rule. For every 2-partner couple, a child is in the merged set
\* stored under the couple's sorted partner pair exactly when it is recorded under
\* the couple's own family or under another record whose partners are a non-empty
\* subset of the couple's partners.
C11_MergeRule ==
  \A i \in 1..Len(data.couples) :
     Len(data.couples[i].partner_ids) = 2 =>
       \A kid \in {data.edges[e].child_id : e \in 1..Len(data.edges)} :
          kid \in mergedChildrenByCoupleKey(data, coupleKey(data.couples[i].partner_ids))
            <=> \E j \in SubsetRecords(data, i) \cup {i} : kid \in RecordedKids(data, j)

\* a laid-out tree with a 2-partner couple that has children of its own, a
\* 1-partner record of one of its partners with a further child, and a record of
\* other partners with a child that stays out of the merged set
C11_Witness ==
  /\ pc = "done"
  /\ \E i, j, k \in 1..Len(data.couples) :
        /\ Len(data.couples[i].partner_ids) = 2
        /\ RecordedKids(data, i) # {}
        /\ j \in SubsetRecords(data, i)
        /\ Len(data.couples[j].partner_ids) = 1
        /\ RecordedKids(data, j) \ RecordedKids(data, i) # {}
        /\ k \notin SubsetRecords(data, i) \cup {i}
        /\ RecordedKids(data, k) \
             mergedChildrenByCoupleKey(data, coupleKey(data.couples[i].partner_ids)) # {}

\* the rendered parent-to-child edges that end at a person
ChildEdgesTo(id) ==
  {i \in 1..Len(rfEdges) : rfEdges[i].type = "smoothstep" /\ rfEdges[i].target = PersonId(id)}

\* two 2-partner couples with no partner in common
DisjointCouples(d, i, j) ==
  /\ i # j
  /\ Len(d.couples[i].partner_ids) = 2
  /\ Len(d.couples[j].partner_ids) = 2
  /\ Range(d.couples[i].partner_ids) \cap Range(d.couples[j].partner_ids) = {}

\* C12: tie-break. In the returned layout a child that is in the merged sets of
\* two 2-partner couples with disjoint partners belongs to the couple with the
\* lower family_id only: all its edges start at that couple's junction and that
\* couple is centred over its block, whatever the order of the couples list.
C12_TieBreakLowestFamilyId ==
  pc = "done" =>
    \A i, j \in 1..Len(data.couples) :
       (DisjointCouples(data, i, j) /\ data.couples[i].family_id < data.couples[j].family_id) =>
         \A k \in getMergedChildren(data, data.couples[i])
                    \cap getMergedChildren(data, data.couples[j]) \cap DOMAIN positions :
            /\ \A e \in ChildEdgesTo(k) :
                  rfEdges[e].source = JunctionId(data.couples[i].family_id)
            /\ CentredOver(data, data.couples[i], positions)

\* ---- properties of suppression, junctions and edges ----

\* the 2-partner couples that enclose the j-th record: they include its one
\* partner and their merged set has all the children recorded under it
Enclosing(d, j) ==
  {i \in 1..Len(d.couples) :
     /\ Len(d.couples[i].partner_ids) = 2
     /\ Includes(d.couples[i].partner_ids, d.couples[j].partner_ids[1])
     /\ childrenByFamily(d, d.couples[j].family_id)
          \subseteq mergedChildrenByCoupleKey(d, coupleKey(d.couples[i].partner_ids))}

\* a 1-partner record with children and a positioned partner that some 2-partner
\* couple encloses
SuppressedRecord(d, j, pos) ==
  /\ Len(d.couples[j].partner_ids) = 1
  /\ d.couples[j].partner_ids[1] \in DOMAIN pos
  /\ childrenByFamily(d, d.couples[j].family_id) # {}
  /\ Enclosing(d, j) # {}

\* C13: suppression. A suppressed 1-partner record is skipped by steps (a) and (b)
\* (applied to it, they leave every position as it is); in the returned layout it
\* has no junction node and no parent-to-junction edge, and the edge of each of
\* its positioned children starts at the junction of an enclosing couple.
C13_SuppressedRecord ==
  \A j \in 1..Len(data.couples) :
     SuppressedRecord(data, j, positions) =>
       LET fid == data.couples[j].family_id
       IN /\ pc \in {"parents", "children"} =>
               /\ CenterParentsStep(data, positions, data.couples[j]).pos = positions
               /\ CenterChildrenStep(data, positions, data.couples[j]).pos = positions
          /\ pc = "done" =>
               /\ \A n \in 1..Len(rfNodes) : rfNodes[n].id # JunctionId(fid)
               /\ \A e \in 1..Len(rfEdges) : rfEdges[e].id # <<"parent-junction", fid>>
               /\ \A k \in childrenByFamily(data, fid) \cap DOMAIN positions :
                     \E e \in ChildEdgesTo(k) :
                        /\ rfEdges[e].id = <<"edge", fid, k>>
                        /\ rfEdges[e].source \in
                             {JunctionId(data.couples[i].family_id) : i \in Enclosing(data, j)}

\* the i-th couple is due a junction: it has merged children and a positioned
\* partner, and, if only one partner is positioned, no other 2-partner couple
\* with that partner covers its children
DueJunction(d, i, pos) ==
  LET couple == d.couples[i]
      kids == getMergedChildren(d, couple)
      vp == ValidPartners(couple, pos)
  IN /\ kids # {}
     /\ Len(vp) >= 1
     /\ ~(/\ Len(vp) = 1
          /\ \E c \in 1..Len(d.couples) :
                /\ c # i
                /\ Len(d.couples[c].partner_ids) = 2
                /\ Includes(d.couples[c].partner_ids, vp[1])
                /\ kids \subseteq
                     mergedChildrenByCoupleKey(d, coupleKey(d.couples[c].partner_ids)))

\* the junction nodes of a family in the output
JunctionsOf(fid) == {n \in 1..Len(rfNodes) : rfNodes[n].id = JunctionId(fid)}

\* C14: junction synthesis. In the returned layout every couple that is due a
\* junction has exactly one junction node, and the centre of that node is the
\* centre of the couple's positioned partners ((min + max + NODE_WIDTH) / 2, which
\* for a lone positioned partner is that partner's centre).
C14_JunctionPerCouple ==
  pc = "done" =>
    \A i \in 1..Len(data.couples) :
       DueJunction(data, i, positions) =>
         /\ Cardinality(JunctionsOf(data.couples[i].family_id)) = 1
         /\ \A n \in JunctionsOf(data.couples[i].family_id) :
               2 * rfNodes[n].x + Px(JUNCTION_SIZE)
                 = MinOf(PartnerXs(data.couples[i], positions))
                     + MaxOf(PartnerXs(data.couples[i], positions)) + Px(NODE_WIDTH)

\* the raw edges of a (family, child) pair whose parent and child are positioned
RenderableEdges(d, pos, fid, kid) ==
  {e \in 1..Len(d.edges) :
     /\ d.edges[e].family_id = fid /\ d.edges[e].child_id = kid
     /\ d.edges[e].parent_id \in DOMAIN pos /\ d.edges[e].child_id \in DOMAIN pos}

\* the rendered parent-to-child edges of a (family, child) pair
RenderedEdges(fid, kid) ==
  {i \in 1..Len(rfEdges) : rfEdges[i].type = "smoothstep" /\ rfEdges[i].id = <<"edge", fid, kid>>}

\* C15: edge rerouting. In the returned layout each (family, child) pair that has
\* a raw edge with positioned endpoints has exactly one rendered edge, a pair
\* without such a raw edge has none, and the rendered edge of a family that has
\* a junction node starts at that junction.
C15_OneReroutedEdgePerChild ==
  pc = "done" =>
    /\ \A e \in 1..Len(data.edges) :
          LET fid == data.edges[e].family_id
              kid == data.edges[e].child_id
          IN Cardinality(RenderedEdges(fid, kid))
               = IF RenderableEdges(data, positions, fid, kid) # {} THEN 1 ELSE 0
    /\ \A i \in 1..Len(rfEdges) :
          rfEdges[i].type = "smoothstep" =>
            /\ \E e \in 1..Len(data.edges) :
                  /\ rfEdges[i].id = <<"edge", data.edges[e].family_id, data.edges[e].child_id>>
                  /\ rfEdges[i].target = PersonId(data.edges[e].child_id)
            /\ \A fid \in {data.couples[c].family_id : c \in 1..Len(data.couples)} :
                  (rfEdges[i].id[2] = fid /\ JunctionsOf(fid) # {})
                    => rfEdges[i].source = JunctionId(fid)

\* a child with one positioned raw edge per parent, in a family with a junction
C15_Witness ==
  /\ pc = "done"
  /\ \E e \in 1..Len(data.edges) :
        /\ Cardinality(RenderableEdges(data, positions, data.edges[e].family_id,
                                       data.edges[e].child_id)) = 2
        /\ JunctionsOf(data.edges[e].family_id) # {}

\* ---- properties of the centring passes ----

\* one more run of the body of the third pass: step (a) over all couples in list
\* order, then step (b) over all couples in list order
RECURSIVE ParentsLoop(_, _, _)
ParentsLoop(d, pos, i) ==
  IF i > Len(d.couples) THEN pos
  ELSE ParentsLoop(d, CenterParentsStep(d, pos, d.couples[i]).pos, i + 1)

RECURSIVE ChildrenLoop(_, _, _)
ChildrenLoop(d, pos, i) ==
  IF i > Len(d.couples) THEN pos
  ELSE ChildrenLoop(d, CenterChildrenStep(d, pos, d.couples[i]).pos, i + 1)

CenteringPass(d, pos) == ChildrenLoop(d, ParentsLoop(d, pos, 1), 1)

\* C16: convergence. For well-formed tree data, the positions left by the three
\* centring passes are a fixed point: a fourth pass changes no position.
C16_FourthPassChangesNothing ==
  (pc = "normalize" /\ WellFormed(data)) => CenteringPass(data, positions) = positions

\* ---- properties of the coordinates ----

\* the person nodes of the output
PersonNodeIdx == {n \in 1..Len(rfNodes) : rfNodes[n].type = "personNode"}

\* C17: banding. While the centring runs, every position has the y given by the
\* second pass, generation x 290 px (no centring step changes a y); in the
\* returned layout every person node has y = 40 + (generation - minimum
\* generation) x 290 px, so nodes of one generation share a y and a larger
\* generation has a strictly larger y.
C17_BandByGeneration ==
  /\ pc \in {"parents", "children", "normalize"} =>
        \A k \in DOMAIN positions : positions[k].y = NodeMapGen(data, k) * Px(190 + 100)
  /\ pc = "done" =>
        /\ \A n \in PersonNodeIdx :
              rfNodes[n].y
                = Px(40) + (NodeMapGen(data, rfNodes[n].id[2]) - MinOf(Generations(data)))
                             * Px(190 + 100)
        /\ \A n, m \in PersonNodeIdx :
              LET gn == NodeMapGen(data, rfNodes[n].id[2])
                  gm == NodeMapGen(data, rfNodes[m].id[2])
              IN /\ gn = gm => rfNodes[n].y = rfNodes[m].y
                 /\ gn < gm => rfNodes[n].y < rfNodes[m].y

\* a returned layout of three generations, ancestors included, whose centring
\* moved two nodes relative to each other
C17_Witness ==
  /\ pc = "done"
  /\ Cardinality(Generations(data)) = 3
  /\ MinOf(Generations(data)) < 0
  /\ \E j, k \in DOMAIN positions :
        positions[k].x - positions[j].x
          # InitialPositions(data, genOrder)[k].x - InitialPositions(data, genOrder)[j].x

\* the positions the three centring passes produce from the provisional ones
CentredPositions(d, order) ==
  CenteringPass(d, CenteringPass(d, CenteringPass(d, InitialPositions(d, order))))

PairedCouples(d, gen) ==
  LET n == Len(d.couples)
      paired[c \in 1..n] ==
        /\ Len(GenPartners(d, d.couples[c], gen)) = 2
        /\ \A b \in 1..(c - 1) :
              paired[b] => Range(GenPartners(d, d.couples[b], gen))
                             \cap Range(GenPartners(d, d.couples[c], gen)) = {}
  IN {c \in 1..n : paired[c]}

\* the pairs of the given couples, in couples-list order
RECURSIVE PairsInOrder(_, _, _)
PairsInOrder(d, gen, cs) ==
  IF cs = {} THEN <<>>
  ELSE GenPartners(d, d.couples[MinOf(cs)], gen) \o PairsInOrder(d, gen, cs \ {MinOf(cs)})

\* the state the second pass leaves
AfterSecondPass ==
  \/ pc = "parents" /\ iter = 0 /\ idx = 1
  \/ pc = "normalize" /\ data.couples = <<>>

PositionedKids(d, couple, pos) == getMergedChildren(d, couple) \cap DOMAIN pos

\* C20: rigid shift. Step (b) for one couple moves every positioned child of the
\* couple's merged child set by the same amount in x, partner centre minus
\* children centre, so the x differences among those children are kept; it
\* changes no y and no other node's position. (Centres are halves of
\* min + max + NODE_WIDTH, so the amount is compared doubled.)
C20_RigidShift ==
  [][(pc = "children" /\ pc' # "threw") =>
       LET couple == data.couples[idx]
           kids == PositionedKids(data, couple, positions)
       IN /\ DOMAIN positions' = DOMAIN positions
          /\ \A n \in DOMAIN positions : positions'[n].y = positions[n].y
          /\ \A n \in DOMAIN positions \ kids : positions'[n] = positions[n]
          /\ \A k, l \in kids :
                positions'[k].x - positions'[l].x = positions[k].x - positions[l].x
          /\ Centrable(data, couple, positions) =>
                \A k \in kids :
                   2 * (positions'[k].x - positions[k].x)
                     = (MinOf(PartnerXs(couple, positions)) + MaxOf(PartnerXs(couple, positions)))
                         - (MinOf(MergedKidXs(data, couple, positions))
                              + MaxOf(MergedKidXs(data, couple, positions)))
          /\ ~Centrable(data, couple, positions) => positions' = positions]_vars

\* step (b) of the first pass has just moved the first couple's block of two or
\* more children, at different x, by a non-zero amount
C20_Witness ==
  /\ pc = "children" /\ iter = 0 /\ idx = 2
  /\ LET couple == data.couples[1]
         before == ParentsLoop(data, InitialPositions(data, genOrder), 1)
         kids == PositionedKids(data, couple, before)
     IN /\ Centrable(data, couple, before)
        /\ \E k, l \in kids : before[k].x # before[l].x
        /\ positions = CenterChildrenStep(data, before, couple).pos
        /\ \E k \in kids : positions[k].x # before[k].x


\* ---- properties of the junction's vertical placement ----

\* C21: junction vertical placement. In the returned layout every junction lies
\* below its parents' row and above the row of the children: with parent y the
\* y of the couple's first positioned partner,
\* parent y + NODE_HEIGHT <= junction y < parent y + NODE_HEIGHT + V_GAP.
C21_JunctionBelowParentRow ==
  pc = "done" =>
    \A i \in 1..Len(data.couples) :
       \A n \in JunctionsOf(data.couples[i].family_id) :
          LET vp == ValidPartners(data.couples[i], positions)
          IN Len(vp) >= 1 =>
               /\ positions[vp[1]].y + Px(190) <= rfNodes[n].y
               /\ rfNodes[n].y < positions[vp[1]].y + Px(190) + Px(100)


\* ---- properties of the horizontal order ----

\* the place of a person in the input node list
NodeIndex(d, id) == MinOf({n \in 1..Len(d.nodes) : d.nodes[n].id = id})

\* C22: sibling order. In the returned layout, any two positioned children of one
\* couple's merged sibling group stand left to right in the order of the input
\* node list: the one listed first has the strictly smaller x.
C22_SiblingOrderKept ==
  pc = "done" =>
    \A i \in 1..Len(data.couples) :
       \A k, l \in PositionedKids(data, data.couples[i], positions) :
          NodeIndex(data, k) < NodeIndex(data, l) => positions[k].x < positions[l].x


\* partners in some couple record
ArePartners(d, p, q) ==
  \E c \in 1..Len(d.couples) : {p, q} \subseteq Range(d.couples[c].partner_ids)

\* C23: contiguous block. In the returned layout, between two positioned children
\* of one couple's merged sibling group stands no person of their generation
\* other than members of the group and partners of members.
C23_SiblingsContiguous ==
  pc = "done" =>
    \A i \in 1..Len(data.couples) :
       LET kids == PositionedKids(data, data.couples[i], positions)
       IN \A k, l \in kids : \A p \in DOMAIN positions \ kids :
             (/\ NodeMapGen(data, p) = NodeMapGen(data, k)
              /\ NodeMapGen(data, p) = NodeMapGen(data, l)
              /\ \A m \in kids : ~ArePartners(data, p, m))
               => ~(positions[k].x < positions[p].x /\ positions[p].x < positions[l].x)


\* ---- properties of degraded input ----

\* an edge whose family has no couple record and whose child is in no 2-partner
\* couple's merged set with a junction
Orphaned(d, jfams, edge) ==
  /\ \A c \in 1..Len(d.couples) : d.couples[c].family_id # edge.family_id
  /\ \A c \in 1..Len(d.couples) :
        ~(/\ Len(d.couples[c].partner_ids) = 2
          /\ edge.child_id \in mergedChildrenByCoupleKey(d, coupleKey(d.couples[c].partner_ids))
          /\ d.couples[c].family_id \in jfams)

\* C24: degraded input is kept. In the returned layout every input edge whose
\* family has no couple record (and whose child no junction covers), with parent
\* and child positioned, has exactly one rendered edge to the child whose source
\* is the edge's own parent; and the child is a person node in the band of its
\* generation.
C24_OrphanedEdgeKept ==
  pc = "done" =>
    \A e \in 1..Len(data.edges) :
       LET edge == data.edges[e]
       IN (/\ Orphaned(data, junctionIds, edge)
           /\ edge.parent_id \in DOMAIN positions
           /\ edge.child_id \in DOMAIN positions)
            => /\ Cardinality({i \in RenderedEdges(edge.family_id, edge.child_id) :
                                 /\ rfEdges[i].source = PersonId(edge.parent_id)
                                 /\ rfEdges[i].target = PersonId(edge.child_id)}) = 1
               /\ \E n \in PersonNodeIdx :
                     /\ rfNodes[n].id = PersonId(edge.child_id)
                     /\ rfNodes[n].y = Px(40) + (NodeMapGen(data, edge.child_id)
                                                   - MinOf(Generations(data))) * Px(190 + 100)


\* ---- properties of the depth controls ----

\* C25: DepthSlider lock. The lock is set initially. A move of the ancestor
\* slider to v sets the ancestor depth to v and, while locked, the descendant
\* depth to min(v, maxDescendantDepth); a move of the descendant slider to v sets
\* the descendant depth to v and, while locked, the ancestor depth to
\* min(v, maxAncestorDepth); while unlocked the other depth is unchanged. After a
\* locked move the depths are equal or the depth not moved is at its maximum.
C25_DepthSliderLock ==
  /\ locked = TRUE
  /\ [][/\ (event' # event /\ event'.slider = "ancestor") =>
             /\ event'.locked = locked
             /\ ancestorDepth' = event'.value
             /\ locked =>
                  /\ descendantDepth'
                       = IF event'.value <= treeData.max_descendant_depth
                         THEN event'.value ELSE treeData.max_descendant_depth
                  /\ \/ descendantDepth' = ancestorDepth'
                     \/ descendantDepth' = treeData.max_descendant_depth
             /\ ~locked => descendantDepth' = descendantDepth
        /\ (event' # event /\ event'.slider = "descendant") =>
             /\ event'.locked = locked
             /\ descendantDepth' = event'.value
             /\ locked =>
                  /\ ancestorDepth'
                       = IF event'.value <= treeData.max_ancestor_depth
                         THEN event'.value ELSE treeData.max_ancestor_depth
                  /\ \/ ancestorDepth' = descendantDepth'
                     \/ ancestorDepth' = treeData.max_ancestor_depth
             /\ ~locked => ancestorDepth' = ancestorDepth]_vars

\* a locked move of the ancestor slider beyond the descendants' maximum has left
\* the descendant depth at that maximum
C25_Witness ==
  /\ event.slider = "ancestor" /\ event.locked
  /\ ancestorDepth = event.value
  /\ extent[individualId].max_descendant_depth < event.value
  /\ descendantDepth = extent[individualId].max_descendant_depth

\* C30: requested depth within the available range. Whenever tree data is loaded
\* and no reset of the depths is pending, 0 <= ancestorDepth <=
\* max_ancestor_depth and 0 <= descendantDepth <= max_descendant_depth of the
\* loaded tree data.
C30_DepthWithinRange ==
  (treeData # NotLoaded /\ ~resetDue) =>
     /\ 0 <= ancestorDepth /\ ancestorDepth <= treeData.max_ancestor_depth
     /\ 0 <= descendantDepth /\ descendantDepth <= treeData.max_descendant_depth


\* ---- properties of the spacing ----

\* C26: no overlap. In the returned layout of well-formed tree data, any two
\* distinct person nodes of one generation are at least NODE_WIDTH (150 px)
\* apart in x.
C26_NoOverlap ==
  (pc = "done" /\ WellFormed(data)) =>
     \A n, m \in PersonNodeIdx :
        (n # m /\ NodeMapGen(data, rfNodes[n].id[2]) = NodeMapGen(data, rfNodes[m].id[2]))
          => \/ rfNodes[n].x - rfNodes[m].x >= Px(150)
             \/ rfNodes[m].x - rfNodes[n].x >= Px(150)

\* C27: couples stay side by side. In the returned layout the two partners of
\* every couple that the initial ordering placed as a pair are exactly
\* NODE_WIDTH + COUPLE_GAP (170 px) apart, the first-listed partner on the left.
C27_CouplesSideBySide ==
  pc = "done" =>
    \A g \in DOMAIN genOrder :
       \A c \in PairedCouples(data, g) :
          LET vp == GenPartners(data, data.couples[c], g)
          IN positions[vp[2]].x - positions[vp[1]].x = Px(150 + 20)


\* ---- properties of the returned graph ----

\* the ids of the returned nodes
NodeIds == {rfNodes[n].id : n \in 1..Len(rfNodes)}

\* C28: referential integrity. In the returned layout every edge (couple
\* connector, parent-to-junction, child edge) has a source and a target that are
\* ids of returned nodes, also when edges and couples of the input name persons
\* that are not in the node list. (Family ids identify the couple records: no two
\* records of an input share one.)
C28_EdgesJoinReturnedNodes ==
  pc = "done" =>
    \A e \in 1..Len(rfEdges) :
       rfEdges[e].source \in NodeIds /\ rfEdges[e].target \in NodeIds

\* a returned layout with a parent-to-junction edge and a child edge, for an input
\* with an edge that names a person who is not a node
C28_Witness ==
  /\ pc = "done"
  /\ \E i \in 1..Len(data.edges) :
        ~NodeMapHas(data, data.edges[i].parent_id) \/ ~NodeMapHas(data, data.edges[i].child_id)
  /\ \E e \in 1..Len(rfEdges) : rfEdges[e].id[1] = "parent-junction"
  /\ \E e \in 1..Len(rfEdges) : rfEdges[e].type = "smoothstep"


\* C29: no dangling junction. In the returned layout every junction node has
\* exactly one incoming parent-to-junction edge, whose source is a positioned
\* partner of the junction's couple, and at least one outgoing edge to a person
\* node of the layout.
C29_NoDanglingJunction ==
  pc = "done" =>
    \A i \in 1..Len(data.couples) :
       \A n \in JunctionsOf(data.couples[i].family_id) :
          LET incoming == {e \in 1..Len(rfEdges) :
                             rfEdges[e].id[1] = "parent-junction"
                               /\ rfEdges[e].target = rfNodes[n].id}
              outgoing == {e \in 1..Len(rfEdges) :
                             rfEdges[e].type = "smoothstep"
                               /\ rfEdges[e].source = rfNodes[n].id
                               /\ rfEdges[e].target \in NodeIds}
          IN /\ Cardinality(incoming) = 1
             /\ \A e \in incoming :
                   \E p \in Range(data.couples[i].partner_ids) \cap DOMAIN positions :
                      rfEdges[e].source = PersonId(p)
             /\ outgoing # {}

====
